---- MODULE Spec2Model ----
(***************************************************************************)
(* Model of the retrieval-and-query pipeline of the Code Explainer Bot:    *)
(* CodeExplainerBot (app.py), CodeAnalyzer (code_analyzer.py) and          *)
(* RepoHandler (repo_handler.py).                                          *)
(*                                                                         *)
(* Python strings are sequences of one-character strings.  Python's None   *)
(* is the empty sequence wherever the code only tests truthiness.          *)
(***************************************************************************)
EXTENDS Integers, Sequences, FiniteSets, TLC

VARIABLES
    current_repo_url,   \* CodeExplainerBot.current_repo_url (<<>> is None)
    repo_path,          \* RepoHandler.repo_path (<<>> is None)
    file_map,           \* CodeAnalyzer.file_map: insertion-ordered doc_id -> path
    file_contents,      \* CodeAnalyzer.file_contents: path -> content
    vector_store,       \* CodeAnalyzer.vector_store: "None" or "Chroma"
    conversation_chain, \* CodeAnalyzer.conversation_chain: "None" or "Chain"
    memory,             \* CodeAnalyzer.memory: sequence of (question, answer) turns
    collection,         \* the persisted Chroma collection "code_chunks"
    last,               \* the last operation: its argument and its outcome
    round_trip,         \* progress of a load / reset / load sequence on one URL
    in_flight           \* the chain invocation a query is waiting for, if any

vars == <<current_repo_url, repo_path, file_map, file_contents, vector_store,
          conversation_chain, memory, collection, last, round_trip, in_flight>>

----------------------------------------------------------------------------
(* Bounds of the model.                                                    *)

\* Largest number of turns ConversationMemory holds before queries that
\* would add another one are no longer issued.
MaxTurns == 1

----------------------------------------------------------------------------
(* Strings.                                                                *)

UpperChars == <<"A","B","C","D","E","F","G","H","I","J","K","L","M",
                "N","O","P","Q","R","S","T","U","V","W","X","Y","Z">>
LowerChars == <<"a","b","c","d","e","f","g","h","i","j","k","l","m",
                "n","o","p","q","r","s","t","u","v","w","x","y","z">>
Digits == <<"0","1","2","3","4","5","6","7","8","9">>

\* Code-point order of the characters that occur in the model.
CodePoints == <<"\n", " ", "!", "'">> \o <<".", "/">> \o Digits \o UpperChars
              \o <<"_">> \o LowerChars

Ord(c) == CHOOSE i \in 1..Len(CodePoints) : CodePoints[i] = c

\* str.lower() on one character.
LowerChar(c) ==
    IF \E i \in 1..Len(UpperChars) : UpperChars[i] = c
    THEN LowerChars[CHOOSE i \in 1..Len(UpperChars) : UpperChars[i] = c]
    ELSE c

LowerOf == [c \in {CodePoints[i] : i \in 1..Len(CodePoints)} |-> LowerChar(c)]

\* str.lower()
lower(s) == [i \in 1..Len(s) |-> LowerOf[s[i]]]

\* Python's `sub in s`
In(sub, s) ==
    \E i \in 0..(Len(s) - Len(sub)) : SubSeq(s, i + 1, i + Len(sub)) = sub

\* str.startswith
startswith(s, p) == Len(p) <= Len(s) /\ SubSeq(s, 1, Len(p)) = p

\* str.endswith
endswith(s, p) == Len(p) <= Len(s) /\ SubSeq(s, Len(s) - Len(p) + 1, Len(s)) = p

Whitespace == {" ", "\n"}

\* The elements of a sequence
Range(s) == {s[i] : i \in 1..Len(s)}

\* `s.strip()` is non-empty
NonBlank(s) == \E i \in 1..Len(s) : s[i] \notin Whitespace

\* str(i) for a natural number
RECURSIVE ToStr(_)
ToStr(n) ==
    IF n < 10 THEN <<Digits[n + 1]>>
    ELSE ToStr(n \div 10) \o <<Digits[(n % 10) + 1]>>

\* Python's < on strings: lexicographic by code point.
RECURSIVE StrLess(_, _)
StrLess(a, b) ==
    IF Len(b) = 0 THEN FALSE
    ELSE IF Len(a) = 0 THEN TRUE
    ELSE IF a[1] # b[1] THEN Ord(a[1]) < Ord(b[1])
    ELSE StrLess(Tail(a), Tail(b))

\* sorted(S) for a set of strings
Least(S) == CHOOSE x \in S : \A y \in S \ {x} : StrLess(x, y)

RECURSIVE SortedSeq(_)
SortedSeq(S) ==
    IF S = {} THEN <<>> ELSE <<Least(S)>> \o SortedSeq(S \ {Least(S)})

\* str.rstrip('/')
RECURSIVE rstrip_slash(_)
rstrip_slash(s) ==
    IF Len(s) > 0 /\ s[Len(s)] = "/" THEN rstrip_slash(SubSeq(s, 1, Len(s) - 1))
    ELSE s

\* The positions of c in s
Positions(s, c) == {i \in 1..Len(s) : s[i] = c}

Max(S) == CHOOSE i \in S : \A j \in S : j <= i

Min(S) == CHOOSE i \in S : \A j \in S : i <= j

\* str.split('/')[-1]
LastSegment(s) ==
    IF Positions(s, "/") = {} THEN s
    ELSE SubSeq(s, Max(Positions(s, "/")) + 1, Len(s))

\* str.replace(old, '') for a non-empty old
RECURSIVE Remove(_, _)
Remove(s, old) ==
    IF Len(s) = 0 THEN <<>>
    ELSE IF startswith(s, old) THEN Remove(SubSeq(s, Len(old) + 1, Len(s)), old)
    ELSE <<s[1]>> \o Remove(Tail(s), old)

----------------------------------------------------------------------------
(* pathlib, for POSIX paths.                                               *)

\* The non-empty pieces of s between slashes
RECURSIVE SplitSlash(_)
SplitSlash(s) ==
    IF Len(s) = 0 THEN <<>>
    ELSE IF Positions(s, "/") = {} THEN <<s>>
    ELSE IF s[1] = "/" THEN SplitSlash(Tail(s))
    ELSE <<SubSeq(s, 1, Min(Positions(s, "/")) - 1)>>
         \o SplitSlash(SubSeq(s, Min(Positions(s, "/")) + 1, Len(s)))

\* Path(p).parts
parts(p) ==
    IF Len(p) > 0 /\ p[1] = "/" THEN <<(<<"/">>)>> \o SplitSlash(p)
    ELSE SplitSlash(p)

RECURSIVE JoinFrom(_, _)
JoinFrom(acc, ps) ==
    IF Len(ps) = 0 THEN acc
    ELSE IF acc = <<"/">> THEN JoinFrom(acc \o ps[1], Tail(ps))
    ELSE JoinFrom(acc \o <<"/">> \o ps[1], Tail(ps))

\* str(Path(*ps))
JoinParts(ps) == IF Len(ps) = 0 THEN <<".">> ELSE JoinFrom(ps[1], Tail(ps))

LastPart(ps) == IF Len(ps) = 0 \/ ps[Len(ps)] = <<"/">> THEN <<>> ELSE ps[Len(ps)]

\* Path(p).name
name(p) == LastPart(parts(p))

\* The last dot of a name and what follows it, unless the dot leads or ends
\* the name.
SuffixOf(n) ==
    IF Positions(n, ".") = {} THEN <<>>
    ELSE IF Max(Positions(n, ".")) = 1 \/ Max(Positions(n, ".")) = Len(n) THEN <<>>
    ELSE SubSeq(n, Max(Positions(n, ".")), Len(n))

\* Path(p).suffix
suffix(p) == SuffixOf(name(p))

\* Path(p).suffix[1:]
file_type(p) == SubSeq(SuffixOf(name(p)), 2, Len(SuffixOf(name(p))))

ParentParts(ps) == IF Len(ps) <= 1 THEN ps ELSE SubSeq(ps, 1, Len(ps) - 1)

\* str(Path(p).parent)
parent(p) == JoinParts(ParentParts(parts(p)))

\* str(base / rel)
Join(base, rel) == JoinParts(parts(base) \o parts(rel))

----------------------------------------------------------------------------
(* The world outside the program: remote repositories and the files a      *)
(* clone puts on disk.  Remote content does not change.                    *)

S_show == <<"s","h","o","w">>
S_display == <<"d","i","s","p","l","a","y">>
S_whats_in == <<"w","h","a","t","'","s"," ","i","n">>
S_what_is_in == <<"w","h","a","t"," ","i","s"," ","i","n">>
S_content_of == <<"c","o","n","t","e","n","t"," ","o","f">>
S_timeout == <<"t","i","m","e","o","u","t">>
S_git == <<".","g","i","t">>

\* RepoHandler.temp_dir, the directory tempfile.mkdtemp() returned
temp_dir == <<"/","t">>

URL_A == <<"g","/","A",".","g","i","t">>
URL_B == <<"g","/","B">>
URL_E == <<"g","/","E","/">>
URL_N == <<"g","/","N">>
URLs == {URL_A, URL_B, URL_E, URL_N}

Unreadable == <<"?">>   \* stands for bytes that are not UTF-8

F(rel, content) == [rel |-> rel, content |-> content]

\* The working tree of each remote repository: relative path and content.
RemoteTree(url) ==
    IF url = URL_A THEN
        { F(<<"a","/","B",".","t","s">>, <<"x">>),
          F(<<"b","/","B",".","t","s">>, <<"y","\n","z">>),
          F(<<"u",".","c","s","s">>, <<"!">>),
          F(<<"c",".","j","s">>, <<" ","\n">>),
          F(<<"d",".","j","s","x">>, Unreadable),
          F(<<".","h","/","e",".","j","s","o","n">>, <<"x">>),
          F(<<"i","o","s","/","f",".","t","s","x">>, <<"x">>),
          F(<<"k",".","j","s","o","n">>, <<"x">>),
          F(<<"g",".","p","y">>, <<"x">>) }
    ELSE IF url = URL_B THEN
        { F(<<"B",".","t","s">>, <<"w">>) }
    ELSE IF url = URL_E THEN
        { F(<<"c",".","j","s">>, <<" ","\n">>),
          F(<<"d",".","j","s","x">>, Unreadable) }
    ELSE
        { F(<<"g",".","p","y">>, <<"x">>) }

\* The result of RecursiveCharacterTextSplitter.split_text on each content of
\* the fixture (the splitter is a library; the program only consumes its list).
\* "raise" stands for the splitter raising.
split_text(content) ==
    IF content = <<"!">> THEN [raised |-> TRUE, chunks |-> <<>>]
    ELSE IF content = <<"y","\n","z">>
    THEN [raised |-> FALSE, chunks |-> << <<"y">>, <<"\n">>, <<"z">> >>]
    ELSE [raised |-> FALSE, chunks |-> << content >>]

\* All orders in which a directory walk can yield the members of S.
RECURSIVE Perms(_)
Perms(S) ==
    IF S = {} THEN {<<>>}
    ELSE UNION {{<<x>> \o p : p \in Perms(S \ {x})} : x \in S}

----------------------------------------------------------------------------
(* RepoHandler                                                             *)

\* repo_url.rstrip('/').split('/')[-1].replace('.git', '')
repo_name(repo_url) == Remove(LastSegment(rstrip_slash(repo_url)), S_git)

\* temp_dir / repo_name(repo_url), where clone_repo puts the clone
repo_dir(repo_url) == Join(temp_dir, repo_name(repo_url))

\* What a clone of each URL puts under its directory: absolute path and
\* content of every file.
Checkouts ==
    [url \in URLs |->
        {[path |-> Join(repo_dir(url), f.rel), content |-> f.content] :
            f \in RemoteTree(url)}]

\* The files under temp_dir after a clone.  Files are read only between a
\* successful clone and the end of the same load, from the directory of
\* that clone.
DiskFiles == UNION {Checkouts[url] : url \in URLs}

ReadFile(fs) ==
    IF fs = {} THEN [raised |-> TRUE, content |-> <<>>]
    ELSE IF (CHOOSE f \in fs : TRUE).content = Unreadable
    THEN [raised |-> TRUE, content |-> <<>>]
    ELSE [raised |-> FALSE, content |-> (CHOOSE f \in fs : TRUE).content]

\* Path.read_text(encoding='utf-8')
read_text(path) == ReadFile({f \in DiskFiles : f.path = path})

\* RepoHandler.clone_repo: repo_path is assigned before the clone is tried.
\* clone_ok: the clone succeeds.  It fails when the network does, and when
\* RepoHandler.cleanup (which swallows every exception of rmtree) left the
\* destination directory behind.
clone_repo(repo_url, clone_ok) ==
    [raised |-> ~clone_ok, repo_path |-> repo_dir(repo_url)]

extensions == << <<".","t","s">>, <<".","t","s","x">>, <<".","j","s">>,
                <<".","j","s","x">>, <<".","c","s","s">>, <<".","j","s","o","n">> >>

SkippedDirs == { <<"n","o","d","e","_","m","o","d","u","l","e","s">>,
                 <<"v","e","n","v">>,
                 <<"_","_","p","y","c","a","c","h","e","_","_">>,
                 <<"b","u","i","l","d">>, <<"d","i","s","t">>,
                 <<".","e","x","p","o">>,
                 <<".","e","x","p","o","-","s","h","a","r","e","d">>,
                 <<"a","n","d","r","o","i","d">>, <<"i","o","s">> }

\* any(part.startswith('.') or part in {...} for part in file_path.parts)
Skipped(path) ==
    \E part \in Range(parts(path)) : startswith(part, <<".">>) \/ part \in SkippedDirs

\* The paths under rpath that repo_path.rglob("*" + ext) yields, as a set.
rglob(rpath, ext) ==
    { f.path : f \in
        { g \in DiskFiles :
            startswith(g.path, rpath \o <<"/">>) /\ endswith(name(g.path), ext) } }

\* The loop of get_all_files over exts: the lists it can build, one for every
\* order in which each rglob can yield its files.
RECURSIVE WalkAll(_, _)
WalkAll(rpath, exts) ==
    IF Len(exts) = 0 THEN {<<>>}
    ELSE { SelectSeq(p, LAMBDA f : ~Skipped(f)) \o rest :
             p \in Perms(rglob(rpath, exts[1])),
             rest \in WalkAll(rpath, Tail(exts)) }

\* The walk of every clone directory.
Walks == [rpath \in {repo_dir(url) : url \in URLs} |-> WalkAll(rpath, extensions)]

\* RepoHandler.get_all_files with the default extensions: the lists it can
\* return.
get_all_files(rpath) == IF Len(rpath) = 0 THEN {<<>>} ELSE Walks[rpath]

----
(* CodeAnalyzer                                                            *)

\* d[k] = v on an insertion-ordered dict held as a sequence of items
DictSet(d, key, v) ==
    IF \E i \in 1..Len(d) : d[i].k = key
    THEN [i \in 1..Len(d) |-> IF d[i].k = key THEN [k |-> key, v |-> v] ELSE d[i]]
    ELSE Append(d, [k |-> key, v |-> v])

\* list(d.values())
values(d) == [i \in 1..Len(d) |-> d[i].v]

\* set(d.values())
KnownPaths(d) == {d[i].v : i \in 1..Len(d)}

\* d.get(key), None as <<>>
Get(d, key) == IF key \in DOMAIN d THEN d[key] ELSE <<>>

\* The fields of a CodeAnalyzer.
Analyzer(fm, fc, vs, cc, mem) ==
    [file_map |-> fm, file_contents |-> fc, vector_store |-> vs,
     conversation_chain |-> cc, memory |-> mem]

Self == Analyzer(file_map, file_contents, vector_store, conversation_chain, memory)

\* Faulty variant of doc_id: the chunk is keyed by the file's name, so files
\* of the same name in different directories share keys.
doc_id_by_name(path, i) == name(path) \o <<"_">> \o ToStr(i)

\* f"{file_path}_{i}"
doc_id(path, i) == path \o <<"_">> \o ToStr(i)

\* The inner loop of process_code_files over enumerate(chunks), from index i on.
RECURSIVE AddChunks(_, _, _, _)
AddChunks(acc, path, chunks, i) ==
    IF i >= Len(chunks) THEN acc
    ELSE IF ~NonBlank(chunks[i + 1]) THEN AddChunks(acc, path, chunks, i + 1)
    ELSE AddChunks(
            [acc EXCEPT
               !.file_map = DictSet(@, doc_id(path, i), path),
               !.documents = Append(@, [text |-> chunks[i + 1],
                                        file |-> path,
                                        chunk_id |-> i,
                                        file_type |-> file_type(path),
                                        file_name |-> name(path)])],
            path, chunks, i + 1)

\* Lines 94-111: the chunks of a stored content; an exception of the splitter
\* keeps the stored content.
ChunkFile(stored, path, sp) ==
    IF sp.raised THEN stored ELSE AddChunks(stored, path, sp.chunks, 0)

\* Faulty variant of StoreFile: the content is stored under the name of the
\* file, while the chunks are registered under its path.
StoreFile_by_name(acc, path, content) ==
    IF ~NonBlank(content) THEN acc
    ELSE ChunkFile([acc EXCEPT !.file_contents = (name(path) :> content) @@ @],
                   path, split_text(content))

\* Lines 80-111: what is done with the text that was read.
StoreFile(acc, path, content) ==
    IF ~NonBlank(content) THEN acc
    ELSE ChunkFile([acc EXCEPT !.file_contents = (path :> content) @@ @],
                   path, split_text(content))

\* One iteration of the loop over files: an exception skips the rest of the
\* iteration.
ProcessFile(acc, path, rd) ==
    IF rd.raised THEN acc ELSE StoreFile(acc, path, rd.content)

\* Faulty variant of ProcessFiles: the try/except is around the loop, so the
\* first file that cannot be read ends it.
RECURSIVE ProcessFiles_until_error(_, _)
ProcessFiles_until_error(acc, files) ==
    IF Len(files) = 0 THEN acc
    ELSE IF read_text(files[1]).raised THEN acc
    ELSE ProcessFiles_until_error(ProcessFile(acc, files[1], read_text(files[1])),
                                  Tail(files))

RECURSIVE ProcessFiles(_, _)
ProcessFiles(acc, files) ==
    IF Len(files) = 0 THEN acc
    ELSE ProcessFiles(ProcessFile(acc, files[1], read_text(files[1])), Tail(files))

Ingested(self, acc) ==
    [self EXCEPT !.file_map = acc.file_map, !.file_contents = acc.file_contents]

\* Lines 116-141: index is what building the index does: "ok", "store_fails"
\* (Chroma.from_texts raises) or "chain_fails"
\* (ConversationalRetrievalChain.from_llm raises).
BuildIndex(self, coll, acc, index) ==
    IF Len(acc.documents) = 0
    THEN [self |-> Ingested(self, acc), collection |-> coll, raised |-> FALSE]
    ELSE IF index = "store_fails"
    THEN [self |-> Ingested(self, acc), collection |-> coll, raised |-> TRUE]
    ELSE IF index = "chain_fails"
    THEN [self |-> [Ingested(self, acc) EXCEPT !.vector_store = "Chroma"],
          collection |-> coll \cup Range(acc.documents), raised |-> TRUE]
    ELSE [self |-> [Ingested(self, acc) EXCEPT !.vector_store = "Chroma",
                                               !.conversation_chain = "Chain"],
          collection |-> coll \cup Range(acc.documents), raised |-> FALSE]

\* CodeAnalyzer.process_code_files
process_code_files(self, coll, files, index) ==
    IF Len(files) = 0
    THEN [self |-> self, collection |-> coll, raised |-> FALSE]
    ELSE BuildIndex(self, coll,
                    ProcessFiles([file_map |-> self.file_map,
                                  file_contents |-> self.file_contents,
                                  documents |-> <<>>], files),
                    index)

\* Faulty variant of reset: without the try/except around delete_collection
\* a failing teardown ends the method before anything is cleared.
reset_unguarded(self, coll, teardown_fails) ==
    IF self.vector_store # "None" /\ teardown_fails
    THEN [self |-> self, collection |-> coll]
    ELSE [self |-> Analyzer(<<>>, <<>>, "None", "None", <<>>),
          collection |-> IF self.vector_store # "None" THEN {} ELSE coll]

\* CodeAnalyzer.reset.  teardown_fails: delete_collection raises.
reset(self, coll, teardown_fails) ==
    [self |-> Analyzer(<<>>, <<>>, "None", "None", <<>>),
     collection |-> IF self.vector_store # "None" /\ ~teardown_fails THEN {} ELSE coll]

\* The three loops of CodeAnalyzer._find_file_path: the paths each loop
\* would return, in the order it meets them.
ExactMatches(query_lower, paths) ==
    SelectSeq(paths, LAMBDA file_path : In(lower(file_path), query_lower))

NameMatches(query_lower, paths) ==
    SelectSeq(paths, LAMBDA file_path : In(lower(name(file_path)), query_lower))

\* Faulty variant of Suffixes: the slices stop before the last component, so
\* they are the suffixes of the parent directory.
Suffixes_of_parent(path_parts) ==
    {JoinParts(SubSeq(path_parts, Len(path_parts) - i, Len(path_parts) - 1)) :
        i \in 1..(Len(path_parts) - 1)}

Suffixes(path_parts) ==
    {JoinParts(SubSeq(path_parts, Len(path_parts) - i, Len(path_parts))) :
        i \in 0..(Len(path_parts) - 1)}

\* str(Path(*path_parts[-(i+1):])) for i in range(len(path_parts))
partial_paths(file_path) == Suffixes(parts(file_path))

PartialMatches(query_lower, paths) ==
    SelectSeq(paths, LAMBDA file_path :
        \E partial_path \in partial_paths(file_path) :
            In(lower(partial_path), query_lower))

\* A loop returns at its first match; without one the next loop runs.
First(matches, otherwise) == IF Len(matches) > 0 THEN matches[1] ELSE otherwise

\* Faulty variant of FirstMatch: the filename loop runs before the exact-path
\* loop.
FirstMatch_by_name(query_lower, paths) ==
    First(NameMatches(query_lower, paths),
          First(ExactMatches(query_lower, paths),
                First(PartialMatches(query_lower, paths), <<>>)))

\* The first match of the first loop that has one; None is <<>>.
FirstMatch(query_lower, paths) ==
    First(ExactMatches(query_lower, paths),
          First(NameMatches(query_lower, paths),
                First(PartialMatches(query_lower, paths), <<>>)))

\* CodeAnalyzer._find_file_path over self.file_map
_find_file_path(query, fm) == FirstMatch(lower(query), values(fm))

----------------------------------------------------------------------------
(* The Answer Generator: the ConversationalRetrievalChain built over the   *)
(* collection, with self.memory as its memory.                             *)

\* search_kwargs "k": the number of chunks the retriever returns at most
search_k == 6

\* timeout, in seconds, of get_code_explanation
timeout == 90

A_ok == <<"o","k">>
Answers == {A_ok}

E_timeout == <<"R","e","a","d"," ","T","i","m","e","o","u","t">>
E_timed_out == <<"t","i","m","e","d"," ","o","u","t">>
E_rate == <<"r","a","t","e">>
ErrorTexts == {E_timeout, E_timed_out, E_rate}

\* The chunk sets the retriever is taken to return: none, any one chunk, or
\* the whole collection; never more than search_k chunks.
Retrievals(coll) ==
    {S \in {{}, coll} \cup {{d} : d \in coll} : Cardinality(S) <= search_k}

\* What one invocation of the chain can do: raise an exception whose str() is
\* text, or return an answer with the chunks it retrieved.
GenOutcomes(coll) ==
    {[raised |-> TRUE, text |-> t, answer |-> <<>>, source_documents |-> {}] :
        t \in ErrorTexts}
    \cup
    {[raised |-> FALSE, text |-> <<>>, answer |-> a, source_documents |-> sd] :
        a \in Answers, sd \in Retrievals(coll)}

\* The names a Python dict answers hasattr() for that matter here: the chain
\* returns a plain dict, whose keys are not attributes.
DictAttributes == {"keys", "values", "items", "get"}

hasattr(obj, attr) == attr \in DictAttributes

\* Faulty variant of conversation_chain_call: the turn is saved to memory
\* before the model is called, so it stays there when the call raises.
chain_call_saving_first(mem, enhanced_query, gen) ==
    [raised |-> gen.raised, text |-> gen.text,
     memory |-> Append(mem, [question |-> enhanced_query, answer |-> gen.answer]),
     response |-> [answer |-> gen.answer, source_documents |-> gen.source_documents]]

\* self.conversation_chain({"question": enhanced_query}): on success the chain
\* saves the turn to its memory and returns a dict; on an exception nothing is
\* saved.
conversation_chain_call(mem, enhanced_query, gen) ==
    IF gen.raised
    THEN [raised |-> TRUE, text |-> gen.text, memory |-> mem,
          response |-> [answer |-> <<>>, source_documents |-> {}]]
    ELSE [raised |-> FALSE, text |-> <<>>,
          memory |-> Append(mem, [question |-> enhanced_query, answer |-> gen.answer]),
          response |-> [answer |-> gen.answer,
                        source_documents |-> gen.source_documents]]

----------------------------------------------------------------------------
(* CodeAnalyzer.get_code_explanation                                       *)

DisplayKeywords == {S_show, S_display, S_whats_in, S_what_is_in, S_content_of}

\* A response text: which template it is and what fills its holes.
Response(kind, nm, path, lang, body, sources) ==
    [kind |-> kind, name |-> nm, path |-> path, lang |-> lang, body |-> body,
     sources |-> sources]

Plain(kind) == Response(kind, <<>>, <<>>, <<>>, <<>>, {})

\* An enhanced_query: which template it is and what fills its holes.
Prompt(kind, nm, path, lang, body, listing, question) ==
    [kind |-> kind, name |-> nm, path |-> path, lang |-> lang, body |-> body,
     listing |-> listing, question |-> question]

NoPrompt == Prompt("none", <<>>, <<>>, <<>>, <<>>, <<>>, <<>>)

FileLines(files) == [i \in 1..Len(files) |-> [tag |-> "file", text |-> files[i]]]

\* files_by_dir, then file_structure: a "dir" line for every parent directory
\* in sorted order, each followed by a "file" line for every file name of
\* that directory in sorted order.
RECURSIVE DirLines(_, _)
DirLines(dirs, paths) ==
    IF Len(dirs) = 0 THEN <<>>
    ELSE <<[tag |-> "dir", text |-> dirs[1]]>>
         \o FileLines(SortedSeq({name(p) : p \in {q \in paths : parent(q) = dirs[1]}}))
         \o DirLines(Tail(dirs), paths)

\* Faulty variant of file_structure: one line for every entry of the file
\* map, neither grouped nor sorted.
file_structure_per_chunk(fm) ==
    [i \in 1..Len(fm) |-> [tag |-> "file", text |-> name(fm[i].v)]]

file_structure(fm) ==
    DirLines(SortedSeq({parent(p) : p \in KnownPaths(fm)}), KnownPaths(fm))

\* What get_code_explanation gives back: the returned text (or raised), the
\* number of chain invocations, the prompt it built, the memory afterwards,
\* the chunks the chain reported and str(e) of the exception the except
\* clause of line 256 caught (<<>> when it caught none).
Outcome(resp, calls, prompt, mem, raised, reported, caught) ==
    [resp |-> resp, calls |-> calls, prompt |-> prompt, memory |-> mem,
     raised |-> raised, reported |-> reported, caught |-> caught]

\* Lines 248-260: what is made of the chain's result r or of its exception.
Answered(enhanced_query, r) ==
    IF r.raised
    THEN IF In(S_timeout, lower(r.text))
         THEN Outcome(Plain("timeout_error"), 1, enhanced_query, r.memory, FALSE, {},
                      r.text)
         ELSE Outcome(Response("generic_error", <<>>, <<>>, <<>>, r.text, {}),
                      1, enhanced_query, r.memory, FALSE, {}, r.text)
    ELSE IF hasattr(r.response, "source_documents") /\ r.response.source_documents # {}
    THEN Outcome(Response("answer_with_sources", <<>>, <<>>, <<>>, r.response.answer,
                          {doc.file : doc \in r.response.source_documents}),
                 1, enhanced_query, r.memory, FALSE, r.response.source_documents, <<>>)
    ELSE Outcome(Response("answer", <<>>, <<>>, <<>>, r.response.answer, {}),
                 1, enhanced_query, r.memory, FALSE, r.response.source_documents, <<>>)

\* Lines 242-246: the timeout check, then the chain invocation.  elapsed is
\* time.time() - start_time when line 243 is reached.
Generate(self, enhanced_query, elapsed, gen) ==
    IF elapsed > timeout
    THEN Outcome(Plain("timed_out"), 0, enhanced_query, self.memory, FALSE, {}, <<>>)
    ELSE Answered(enhanced_query,
                  conversation_chain_call(self.memory, enhanced_query, gen))

\* Faulty variant of AboutFile: without the show_code branch every query that
\* names a file goes to the chain.
AboutFile_explained(self, query, show_code, requested_file, file_content, elapsed, gen) ==
    IF Len(file_content) = 0
    THEN Outcome(Response("no_contents", <<>>, requested_file, <<>>, <<>>, {}),
                 0, NoPrompt, self.memory, FALSE, {}, <<>>)
    ELSE Generate(self,
                  Prompt("file", name(requested_file), requested_file,
                         file_type(requested_file), file_content, <<>>, query),
                  elapsed, gen)

\* Lines 184-214: the query names a file.
AboutFile(self, query, show_code, requested_file, file_content, elapsed, gen) ==
    IF Len(file_content) = 0
    THEN Outcome(Response("no_contents", <<>>, requested_file, <<>>, <<>>, {}),
                 0, NoPrompt, self.memory, FALSE, {}, <<>>)
    ELSE IF show_code
    THEN Outcome(Response("contents", name(requested_file), requested_file,
                          file_type(requested_file), file_content, {}),
                 0, NoPrompt, self.memory, FALSE, {}, <<>>)
    ELSE Generate(self,
                  Prompt("file", name(requested_file), requested_file,
                         file_type(requested_file), file_content, <<>>, query),
                  elapsed, gen)

\* Lines 184-240: the branch on requested_file.
Route(self, query, show_code, requested_file, elapsed, gen) ==
    IF Len(requested_file) > 0
    THEN AboutFile(self, query, show_code, requested_file,
                   Get(self.file_contents, requested_file), elapsed, gen)
    ELSE Generate(self,
                  Prompt("structure", <<>>, <<>>, <<>>, <<>>,
                         file_structure(self.file_map), query),
                  elapsed, gen)

\* any(keyword in query.lower() for keyword in [...])
show_code(query) == \E keyword \in DisplayKeywords : In(keyword, lower(query))

\* Faulty variant of get_code_explanation: without the check of lines 170-171.
get_code_explanation_unchecked(self, query, elapsed, gen) ==
    Route(self, query, show_code(query), _find_file_path(query, self.file_map),
          elapsed, gen)

\* CodeAnalyzer.get_code_explanation
get_code_explanation(self, query, elapsed, gen) ==
    IF self.conversation_chain = "None"
    THEN Outcome(Plain("not_loaded"), 0, NoPrompt, self.memory, FALSE, {}, <<>>)
    ELSE Route(self, query, show_code(query), _find_file_path(query, self.file_map),
               elapsed, gen)

----------------------------------------------------------------------------
(* CodeExplainerBot                                                        *)

\* The bot with its handler and analyzer, and the collection on disk.
Bot(url, rpath, self, coll) ==
    [current_repo_url |-> url, repo_path |-> rpath, self |-> self,
     collection |-> coll]

State == Bot(current_repo_url, repo_path, Self, collection)

IndexOutcomes == {"ok", "store_fails", "chain_fails"}

E_clone == <<"c","l","o","n","e">>
E_index == <<"i","n","d","e","x">>

\* Lines 29-35: after process_code_files (pr).
Processed(st, repo_url, cl, pr) ==
    IF pr.raised
    THEN [bot |-> Bot(st.current_repo_url, cl.repo_path, pr.self, pr.collection),
          resp |-> Response("load_error", <<>>, <<>>, <<>>, E_index, {})]
    ELSE [bot |-> Bot(repo_url, cl.repo_path, pr.self, pr.collection),
          resp |-> Plain("loaded")]

\* Lines 23-35: after cleanup and reset (rs), with the result of clone_repo (cl).
Cloned(st, repo_url, rs, cl, index) ==
    IF cl.raised
    THEN { [bot |-> Bot(st.current_repo_url, cl.repo_path, rs.self, rs.collection),
            resp |-> Response("load_error", <<>>, <<>>, <<>>, E_clone, {})] }
    ELSE { Processed(st, repo_url, cl,
                     process_code_files(rs.self, rs.collection, code_files, index)) :
             code_files \in get_all_files(cl.repo_path) }

\* CodeExplainerBot.load_repository: every result the call can have, one for
\* each list get_all_files can return.  The cleanup of line 19 never raises
\* and changes only the disk; what it leaves there shows in clone_ok.
load_repository(st, repo_url, teardown_fails, clone_ok, index) ==
    Cloned(st, repo_url, reset(st.self, st.collection, teardown_fails),
           clone_repo(repo_url, clone_ok), index)

\* Lines 42-45: an exception of get_code_explanation becomes a response.
Guarded(o) ==
    IF o.raised THEN [o EXCEPT !.resp = Plain("response_error"), !.raised = FALSE]
    ELSE o

\* CodeExplainerBot.get_response
get_response(st, user_input, elapsed, gen) ==
    IF Len(st.current_repo_url) = 0
    THEN Outcome(Plain("load_first"), 0, NoPrompt, st.self.memory, FALSE, {}, <<>>)
    ELSE Guarded(get_code_explanation(st.self, user_input, elapsed, gen))

----------------------------------------------------------------------------
(* The queries put to the bot.                                             *)

P_A_aB == <<"/","t","/","A","/","a","/","B",".","t","s">>
P_A_bB == <<"/","t","/","A","/","b","/","B",".","t","s">>
P_B_B == <<"/","t","/","B","/","B",".","t","s">>

Q_show_path == <<"S","h","o","w"," ">> \o <<"/","T","/","a","/","A","/","b",".","T","S">>
Q_show_name == <<"s","h","o","w"," ","b",".","t","s">>
Q_why_name == <<"w","h","y"," ","B",".","t","s">>
Q_why == <<"w","h","y">>
Q_display == <<"d","i","s","p","l","a","y"," ","i","t">>

Q_why_partial == <<"w","h","y"," ","a","/","b",".","t","s">>

Queries == {Q_show_path, Q_show_name, Q_why_name, Q_why_partial, Q_why, Q_display}

Elapsed == {0, timeout + 1}

----------------------------------------------------------------------------
(* The state machine.                                                      *)

Last(op, arg, o) ==
    [op |-> op, arg |-> arg, resp |-> o.resp, calls |-> o.calls,
     prompt |-> o.prompt, raised |-> o.raised, reported |-> o.reported,
     caught |-> o.caught]

Quiet(resp) == Outcome(resp, 0, NoPrompt, <<>>, FALSE, {}, <<>>)

NoRoundTrip == [stage |-> 0, url |-> <<>>, first |-> <<>>, second |-> <<>>]

SetBot(b) ==
    /\ current_repo_url' = b.current_repo_url
    /\ repo_path' = b.repo_path
    /\ file_map' = b.self.file_map
    /\ file_contents' = b.self.file_contents
    /\ vector_store' = b.self.vector_store
    /\ conversation_chain' = b.self.conversation_chain
    /\ memory' = b.self.memory
    /\ collection' = b.collection

\* The outcomes of the calls an operation makes, where it makes them: a
\* teardown only of an existing vector store, a clock reading and a chain
\* invocation only by a query that gets that far.
TeardownOutcomes == IF vector_store = "None" THEN {FALSE} ELSE BOOLEAN

NoAnswer == [raised |-> FALSE, text |-> <<>>, answer |-> <<>>, source_documents |-> {}]

\* The query gets as far as the timeout check of line 243, where the clock and
\* then the chain are consulted.
ReachesGenerator(user_input) ==
    get_response(State, user_input, 0, NoAnswer).prompt # NoPrompt

\* No chain invocation is in flight.
NoCall == [query |-> <<>>, waited |-> 0]

Init ==
    /\ current_repo_url = <<>>
    /\ repo_path = <<>>
    /\ file_map = <<>>
    /\ file_contents = <<>>
    /\ vector_store = "None"
    /\ conversation_chain = "None"
    /\ memory = <<>>
    /\ collection = {}
    /\ last = Last("init", <<>>, Quiet(Plain("none")))
    /\ round_trip = NoRoundTrip
    /\ in_flight = NoCall

LoadStep(repo_url, out) ==
    /\ SetBot(out.bot)
    /\ UNCHANGED in_flight
    /\ last' = Last("load", repo_url, Quiet(out.resp))
    /\ round_trip' =
         IF out.resp.kind # "loaded" THEN NoRoundTrip
         ELSE IF round_trip.stage = 2 /\ round_trip.url = repo_url
         THEN [round_trip EXCEPT !.stage = 3,
                                 !.second = values(out.bot.self.file_map)]
         ELSE [stage |-> 1, url |-> repo_url,
               first |-> values(out.bot.self.file_map), second |-> <<>>]

LoadRepository ==
    \E repo_url \in URLs, teardown_fails \in TeardownOutcomes, clone_ok \in BOOLEAN :
     \E index \in IF clone_ok THEN IndexOutcomes ELSE {"ok"} :
      \E out \in load_repository(State, repo_url, teardown_fails, clone_ok, index) :
        LoadStep(repo_url, out)

ResetStep(rs) ==
    /\ SetBot(Bot(current_repo_url, repo_path, rs.self, rs.collection))
    /\ UNCHANGED in_flight
    /\ last' = Last("reset", <<>>, Quiet(Plain("none")))
    /\ round_trip' =
         IF round_trip.stage = 1 THEN [round_trip EXCEPT !.stage = 2]
         ELSE IF round_trip.stage = 3
         THEN [stage |-> 2, url |-> round_trip.url,
               first |-> round_trip.second, second |-> <<>>]
         ELSE NoRoundTrip

Reset ==
    \E teardown_fails \in TeardownOutcomes :
     \E rs \in {reset(Self, collection, teardown_fails)} :
        ResetStep(rs)

QueryStep(user_input, o) ==
    /\ Len(o.memory) <= MaxTurns
    /\ memory' = o.memory
    /\ last' = Last("query", user_input, o)
    /\ round_trip' = NoRoundTrip
    /\ in_flight' = NoCall
    /\ UNCHANGED <<current_repo_url, repo_path, file_map, file_contents,
                   vector_store, conversation_chain, collection>>

GetResponse ==
    \E user_input \in Queries :
     \E reaches \in {ReachesGenerator(user_input)} :
      \E elapsed \in IF reaches THEN Elapsed ELSE {0} :
       \E gen \in IF reaches /\ elapsed <= timeout
                  THEN GenOutcomes(collection) ELSE {NoAnswer} :
       \E o \in {get_response(State, user_input, elapsed, gen)} :
        QueryStep(user_input, o)

Next == LoadRepository \/ Reset \/ GetResponse

Spec == Init /\ [][Next]_vars

----------------------------------------------------------------------------
(* The same machine with the chain invocation of line 246 in two steps:    *)
(* the request is sent, and later it ends.  One session runs one           *)
(* operation at a time, so nothing else happens while a query waits.       *)

\* request_timeout of the ChatOpenAI client, in seconds
request_timeout == 90

\* Faulty variant of RequestTimedOut: a client built without request_timeout
\* never gives up.
never_times_out(waited) == FALSE

\* The client gives up on a request that has waited request_timeout seconds.
RequestTimedOut(waited) == waited >= request_timeout

\* str(e) of the exception the client raises when it gives up
TimeoutTexts == {E_timeout, E_timed_out}

TimedOutRequest(text) ==
    [raised |-> TRUE, text |-> text, answer |-> <<>>, source_documents |-> {}]

Idle == in_flight = NoCall

Waiting ==
    UNCHANGED <<current_repo_url, repo_path, file_map, file_contents, vector_store,
                conversation_chain, memory, collection, last, round_trip>>

LiveLoad == Idle /\ LoadRepository

LiveReset == Idle /\ Reset

\* A query that returns without invoking the chain; one that gets to line 243
\* does so when the check there finds the time used up.
Immediate ==
    /\ Idle
    /\ \E user_input \in Queries :
        \E reaches \in {ReachesGenerator(user_input)} :
         \E elapsed \in IF reaches THEN {timeout + 1} ELSE {0} :
          \E o \in {get_response(State, user_input, elapsed, NoAnswer)} :
            QueryStep(user_input, o)

\* A query gets to line 246 and invokes the chain.
Ask ==
    /\ Idle
    /\ \E user_input \in Queries :
        /\ ReachesGenerator(user_input)
        /\ in_flight' = [query |-> user_input, waited |-> 0]
    /\ Waiting

\* Time passes while the request is out; the clock is read when the request
\* is sent and when its budget is used up.
Tick ==
    /\ ~Idle
    /\ in_flight.waited < request_timeout
    /\ in_flight' = [in_flight EXCEPT !.waited = @ + request_timeout]
    /\ Waiting

\* Lines 246-260 once the invocation has ended as gen.
Complete(gen) ==
    \E o \in {get_response(State, in_flight.query, 0, gen)} :
        QueryStep(in_flight.query, o)

\* The chain answers or raises before the client gives up.
Answer ==
    /\ ~Idle
    /\ ~RequestTimedOut(in_flight.waited)
    /\ \E gen \in GenOutcomes(collection) : Complete(gen)

\* The client gives up: the invocation raises its timeout exception.
GiveUp ==
    /\ ~Idle
    /\ RequestTimedOut(in_flight.waited)
    /\ \E text \in TimeoutTexts : Complete(TimedOutRequest(text))

NextLive == LiveLoad \/ LiveReset \/ Immediate \/ Ask \/ Tick \/ Answer \/ GiveUp

\* What a GiveUp step does to in_flight; no other step of NextLive is
\* possible while the guard holds.
GiveUpStep ==
    /\ ~Idle
    /\ RequestTimedOut(in_flight.waited)
    /\ in_flight' = NoCall

\* Time passes, and the client enforces its request_timeout, after which the
\* query runs on to its return; nothing makes the remote model answer.
SpecLive ==
    Init /\ [][NextLive]_vars /\ WF_vars(Tick) /\ WF_in_flight(GiveUpStep)

----------------------------------------------------------------------------
(* Properties.                                                             *)

\* C1: a query put while no repository is loaded (current_repo_url unset, or
\* the analyzer without a conversation chain, as before any load and after a
\* reset), whatever its text, is answered with the not-loaded message; the
\* chain is not invoked and no prompt is built, the check coming before the
\* display keywords and the file resolution.
C1_NotLoaded ==
    (last.op = "query" /\ (Len(current_repo_url) = 0 \/ conversation_chain = "None")) =>
        /\ last.resp = Plain(IF Len(current_repo_url) = 0 THEN "load_first"
                             ELSE "not_loaded")
        /\ last.calls = 0
        /\ last.prompt = NoPrompt
        /\ ~last.raised

\* A display query naming an ingested file was put while the analyzer had no
\* conversation chain.
C1_Witness ==
    /\ last.op = "query"
    /\ conversation_chain = "None"
    /\ show_code(last.arg)
    /\ Len(_find_file_path(last.arg, file_map)) > 0

C2_Shown(p) ==
    /\ last'.resp = Response("contents", name(p), p, file_type(p),
                             Get(file_contents, p), {})
    /\ Get(file_contents, p) = read_text(p).content
    /\ last'.calls = 0
    /\ last'.prompt = NoPrompt
    /\ memory' = memory

\* C2: with a repository loaded, a query with a display keyword that resolves
\* to a path p is answered with the content stored for p at ingestion, as it
\* was read, in a fence tagged with p's extension under a header with p's
\* name and p; the chain is not invoked and the memory does not change.
C2_Display ==
    [][(/\ last'.op = "query"
        /\ Len(current_repo_url) > 0
        /\ conversation_chain = "Chain"
        /\ show_code(last'.arg)
        /\ Len(_find_file_path(last'.arg, file_map)) > 0)
       => C2_Shown(_find_file_path(last'.arg, file_map))]_vars

\* The content of b/B.ts, one chunk of which is blank, was displayed while
\* the memory held a turn.
C2_Witness ==
    /\ last.op = "query"
    /\ last.resp.kind = "contents"
    /\ last.resp.path = P_A_bB
    /\ last.resp.body = <<"y", "\n", "z">>
    /\ Len(memory) > 0

\* C3: an answered explanation query whose file resolved invoked the chain
\* once, and its text has the Sources section exactly when the chain
\* reported source chunks, the section listing the files of those chunks.
C3_SourcesIff ==
    (/\ last.op = "query"
     /\ last.prompt.kind = "file"
     /\ last.resp.kind \in {"answer", "answer_with_sources"}) =>
        /\ last.calls = 1
        /\ (last.resp.kind = "answer_with_sources") <=> (last.reported # {})
        /\ last.resp.sources = {doc.file : doc \in last.reported}

C4_Level(q, paths, r) ==
    /\ (\E p \in paths : In(lower(p), lower(q))) =>
           (r \in paths /\ In(lower(r), lower(q)))
    /\ (/\ ~\E p \in paths : In(lower(p), lower(q))
        /\ \E p \in paths : In(lower(name(p)), lower(q))) =>
           (r \in paths /\ In(lower(name(r)), lower(q)))

\* C4: if a known path occurs in the query, case-insensitively, the resolver
\* returns such a path; otherwise, if the name of a known path occurs in the
\* query, it returns a known path with such a name, never None.
C4_Priority ==
    \A q \in Queries : C4_Level(q, KnownPaths(file_map), _find_file_path(q, file_map))

\* b/B.ts was ingested before a/B.ts; the query with the path of a/B.ts got
\* a/B.ts, and the query with the name alone resolves to b/B.ts.
C4_Witness ==
    /\ Len(file_map) > 0
    /\ file_map[1].v = P_A_bB
    /\ last.op = "query"
    /\ last.arg = Q_show_path
    /\ last.resp.path = P_A_aB
    /\ _find_file_path(Q_why_name, file_map) = P_A_bB

\* C5: after load, reset and load of the same repository that ingest the same
\* set of paths, every query resolves over the second file map to what it
\* resolved to over the first.
C5_Deterministic ==
    (/\ round_trip.stage = 3
     /\ Range(round_trip.first) = Range(round_trip.second)) =>
        \A q \in Queries :
            FirstMatch(lower(q), round_trip.first)
                = FirstMatch(lower(q), round_trip.second)

C7_Reset ==
    [][(last'.op = "reset") =>
        /\ ~last'.raised
        /\ file_map' = <<>>
        /\ file_contents' = <<>>
        /\ vector_store' = "None"
        /\ conversation_chain' = "None"
        /\ memory' = <<>>
        /\ (last.op = "reset") =>
              UNCHANGED <<current_repo_url, repo_path, file_map, file_contents,
                          vector_store, conversation_chain, memory, collection>>]_vars

\* A reset has run and the collection of a failed teardown is still there.
C7_Witness ==
    /\ last.op = "reset"
    /\ collection # {}
    /\ vector_store = "None"
    /\ Len(file_map) = 0

\* C8: after a load that reported success, current_repo_url is the loaded
\* URL, every known path and every stored content is of the new clone, the
\* memory is empty, and no query is answered with a not-loaded message.
C8_Replaced ==
    (last.op = "load" /\ last.resp.kind = "loaded") =>
        /\ current_repo_url = last.arg
        /\ \A p \in KnownPaths(file_map) \cup DOMAIN file_contents :
              startswith(p, repo_dir(last.arg) \o <<"/">>)
        /\ memory = <<>>
        /\ \A q \in Queries :
              get_response(State, q, 0, NoAnswer).resp.kind
                  \notin {"load_first", "not_loaded"}

\* C9: a load that ended with no file ingested did not report success.
C9_EmptyFails ==
    (last.op = "load" /\ Len(file_map) = 0) => last.resp.kind # "loaded"

\* C10: after load, reset and load of the same repository, both loads
\* reporting success, the set of known paths is that of the first load.
C10_RoundTrip ==
    (round_trip.stage = 3) => Range(round_trip.first) = Range(round_trip.second)

\* The two loads ingested the same files in different orders.
C10_Witness ==
    /\ round_trip.stage = 3
    /\ round_trip.url = URL_A
    /\ Len(round_trip.first) > 0
    /\ round_trip.first # round_trip.second

C12_Registered(f, chunks) ==
    \A i \in 1..Len(chunks) :
        NonBlank(chunks[i]) =>
            \E j \in 1..Len(file_map) :
                file_map[j] = [k |-> doc_id(f.path, i - 1), v |-> f.path]

C12_Ingested(f) ==
    /\ Get(file_contents, f.path) = f.content
    /\ ~split_text(f.content).raised =>
           C12_Registered(f, split_text(f.content).chunks)

\* C12: after a load whose clone succeeded, every file of the clone that
\* get_all_files collects and that reads as non-blank text has its content
\* stored, and, unless splitting it raised, every non-blank chunk of it
\* registered in the file map: also the files listed before and after files
\* that could not be read or split.
C12_SkippedAlone ==
    (last.op = "load" /\ last.resp.body # E_clone) =>
        \A f \in Checkouts[last.arg] :
            (/\ \E files \in get_all_files(repo_dir(last.arg)) :
                    f.path \in Range(files)
             /\ ~read_text(f.path).raised
             /\ NonBlank(f.content)) => C12_Ingested(f)

\* A load reported success although d.jsx could not be read and u.css could
\* not be split; u.css, whose content was stored before the splitter raised,
\* is no known path, and k.json, listed after both, is.
C12_Witness ==
    /\ last.op = "load"
    /\ last.arg = URL_A
    /\ last.resp.kind = "loaded"
    /\ Join(repo_dir(URL_A), <<"u", ".", "c", "s", "s">>) \in DOMAIN file_contents
    /\ Join(repo_dir(URL_A), <<"u", ".", "c", "s", "s">>) \notin KnownPaths(file_map)
    /\ Join(repo_dir(URL_A), <<"k", ".", "j", "s", "o", "n">>) \in KnownPaths(file_map)
    /\ P_A_aB \in KnownPaths(file_map)

\* The directory line that line i of a listing is under
C13_DirAt(listing, i) ==
    IF \E j \in 1..i : listing[j].tag = "dir"
    THEN listing[Max({j \in 1..i : listing[j].tag = "dir"})].text
    ELSE <<>>

C13_FileLines(listing) == {i \in 1..Len(listing) : listing[i].tag = "file"}

\* Every known path once, by name under its parent directory, and nothing
\* else; directories ascending, names ascending within a directory.
C13_Listed(listing, paths) ==
    /\ \A p \in paths :
          Cardinality({i \in C13_FileLines(listing) :
                          /\ listing[i].text = name(p)
                          /\ C13_DirAt(listing, i) = parent(p)}) = 1
    /\ Cardinality(C13_FileLines(listing)) = Cardinality(paths)
    /\ \A i, j \in 1..Len(listing) :
          (i < j /\ listing[i].tag = "dir" /\ listing[j].tag = "dir") =>
              StrLess(listing[i].text, listing[j].text)
    /\ \A i, j \in C13_FileLines(listing) :
          (i < j /\ C13_DirAt(listing, i) = C13_DirAt(listing, j)) =>
              StrLess(listing[i].text, listing[j].text)

\* The last query was put to a loaded bot and resolved to no file.
C13_Unresolved ==
    /\ last.op = "query"
    /\ Len(current_repo_url) > 0
    /\ conversation_chain = "Chain"
    /\ Len(_find_file_path(last.arg, file_map)) = 0

C13_Prompted ==
    /\ last.prompt.kind = "structure"
    /\ last.prompt.question = last.arg
    /\ C13_Listed(last.prompt.listing, KnownPaths(file_map))

C13_AnswerReturned ==
    /\ last.resp = Response("answer", <<>>, <<>>, <<>>, last.resp.body, {})
    /\ Len(memory) > 0
    /\ memory[Len(memory)] = [question |-> last.prompt, answer |-> last.resp.body]

C14_ByName(query_lower, paths) ==
    /\ \A p \in Range(paths) :
          (\E partial_path \in partial_paths(p) :
              In(lower(partial_path), query_lower)) =>
                  In(lower(name(p)), query_lower)
    /\ FirstMatch(query_lower, paths)
          = First(ExactMatches(query_lower, paths),
                  First(NameMatches(query_lower, paths), <<>>))
    /\ (Len(FirstMatch(query_lower, paths)) = 0)
          <=> (\A p \in Range(paths) : ~In(lower(name(p)), query_lower))

\* C14: for every query, a known path one of whose component suffixes occurs
\* in the query has its name in the query too; the resolver returns what its
\* first two loops alone would return, and returns None exactly when the
\* name of no known path occurs in the query.
C14_SuffixLevelIdle ==
    \A q \in Queries : C14_ByName(lower(q), values(file_map))

\* "why a/b.ts", in which the suffix a/B.ts of one known path occurs, was
\* resolved by the filename loop to b/B.ts, which was ingested first.
C14_Witness ==
    /\ last.op = "query"
    /\ last.arg = Q_why_partial
    /\ last.prompt.path = P_A_bB
    /\ P_A_aB \in Range(values(file_map))
    /\ \E partial_path \in partial_paths(P_A_aB) :
          /\ partial_path # name(P_A_aB)
          /\ In(lower(partial_path), lower(Q_why_partial))

\* C15: every path of the chunk map has a stored content that is not blank,
\* and no query is answered with the "found the file but couldn't retrieve its
\* contents" message.
C15_ContentsKept ==
    /\ \A p \in KnownPaths(file_map) :
          /\ p \in DOMAIN file_contents
          /\ NonBlank(file_contents[p])
    /\ last.resp.kind # "no_contents"

\* A query that names a file of the chunk map got its contents, while a
\* content is stored that has no chunk in the map.
C15_Witness ==
    /\ last.op = "query"
    /\ last.resp.kind = "contents"
    /\ last.resp.path \in KnownPaths(file_map)
    /\ DOMAIN file_contents # KnownPaths(file_map)

C16_NotQueryable(st) ==
    \A q \in Queries :
        /\ get_response(st, q, 0, NoAnswer).resp = Plain("not_loaded")
        /\ get_response(st, q, 0, NoAnswer).calls = 0

C16_AfterFailure ==
    (/\ last'.op = "load"
     /\ last'.resp.kind = "load_error"
     /\ Len(current_repo_url) > 0) =>
        /\ Len(file_map') = 0
        /\ DOMAIN file_contents' = {}
        /\ conversation_chain' = "None"
        /\ Len(memory') = 0
        /\ current_repo_url' = current_repo_url
        /\ C16_NotQueryable(State')

C16_UntilLoaded ==
    (conversation_chain = "None" /\ conversation_chain' # "None") =>
        (last'.op = "load" /\ last'.resp.kind = "loaded")

\* C16: a load that ends with an error while a repository is loaded leaves
\* the file map, the file contents, the chain and the memory empty and
\* current_repo_url as it was, every query then gets the not-loaded message
\* without a call of the chain, and the chain stays unset until a load
\* reports success.
C16_FailedLoad == [][C16_AfterFailure /\ C16_UntilLoaded]_vars

====
